---- MODULE Spec2Model ----
(***************************************************************************)
(* Active Object (behavioral/active_object.py): client threads call        *)
(* Proxy.process_transaction, which builds a MethodRequest and puts it on  *)
(* the Scheduler's activation queue (queue.PriorityQueue, a binary heap    *)
(* ordered by MethodRequest.__lt__); the single Scheduler thread takes     *)
(* requests off the queue and executes them, storing each result in the    *)
(* request's Future (a value slot guarded by a threading.Condition).       *)
(***************************************************************************)
EXTENDS Naturals, Sequences, FiniteSets, TLC

\* ------------------------------------------------------------------ bounds

\* Number of MethodRequests submitted in one run.
MaxReq == 3
\* Number of direct set_result calls made on the Future under test (FutureSpec).
MaxSets == 2

\* ---------------------------------------------------------------- constants

Worker == "w"
Clients == {"c1", "c2"}
Threads == Clients \cup {Worker}
NoThread == "nobody"
NoReq == [id |-> 0]

\* Futures are identified with the id of the MethodRequest that owns them.
Reqs == 1 .. MaxReq
\* The priorities of the example usage.
Prios == {1, 5, 10}
\* What the servant method of a request does: return a value, return None, raise.
Kinds == {"ok", "none", "raise"}
\* Python values are modelled as tuples; None is the one-element tuple below.
None == <<"None">>
\* The future under test in FutureSpec, and the values set on it directly.
F0 == 1
SetValues == {None, <<"a">>, <<"b">>}

VARIABLES
    nsub,        \* how many MethodRequests have been built (ids follow submission order)
    heap,        \* activation_queue.queue: the heap list of PriorityQueue
    pc,          \* each thread's position
    tf,          \* the Future whose method a thread is in (0: none)
    val,         \* the argument of the set_result a thread is in
    cur,         \* Scheduler.run's local method_request (NoReq outside execute)
    lock,        \* Future._condition's lock: its owner
    result,      \* Future._result
    waiters,     \* threads suspended in Future._condition.wait()
    executing,   \* <<thread, request id>>: the execute() calls in progress
    order,       \* request ids in the order the worker dequeued them
    ranBy,       \* which thread ran each request's servant method
    raised,      \* requests whose servant method raised
    setCalls,    \* completed set_result calls per Future
    asked,       \* get_result calls started per Future
    got          \* the values get_result has returned, per Future

vars == <<nsub, heap, pc, tf, val, cur, lock, result, waiters, executing,
          order, ranBy, raised, setCalls, asked, got>>

\* ------------------------------------------------------------ MethodRequest

\* TransactionProcessor.process_transaction's return value for a request:
\* the string built from the call's own arguments (tid stands for the
\* transaction id and amount, which differ from call to call).
Receipt(mr) == <<"completed", mr.tid>>

\* MethodRequest.__init__ with one Future object shared by all requests (a
\* Future built once, as a default argument is).
MethodRequest_shared_future(id, p, k) ==
    [id |-> id, tid |-> id, priority |-> p, kind |-> k, future |-> F0]

\* MethodRequest.__init__: the arguments are bound and `self.future =
\* Future()` makes a new Future, named here by the request's id.
MethodRequest(id, p, k) ==
    [id |-> id, tid |-> id, priority |-> p, kind |-> k, future |-> id]

\* MethodRequest.__lt__ with the comparison the wrong way round.
MethodRequest_lt_lowfirst(a, b) == a.priority < b.priority

\* MethodRequest.__lt__: higher priority first.
MethodRequest_lt(a, b) == a.priority > b.priority

\* ---------------------------------------------------- PriorityQueue's heap
\* heapq on a list, positions 1-based here: parent of pos is pos \div 2,
\* children of pos are 2*pos and 2*pos+1.

RECURSIVE siftdown_loop(_, _, _, _)
siftdown_loop(h, startpos, pos, newitem) ==
    IF pos > startpos
    THEN LET parentpos == pos \div 2
             parent == h[parentpos]
         IN  IF MethodRequest_lt(newitem, parent)
             THEN siftdown_loop([h EXCEPT ![pos] = parent], startpos, parentpos, newitem)
             ELSE [h EXCEPT ![pos] = newitem]
    ELSE [h EXCEPT ![pos] = newitem]

siftdown(h, startpos, pos) == siftdown_loop(h, startpos, pos, h[pos])

RECURSIVE siftup_loop(_, _, _)
siftup_loop(h, pos, newitem) ==
    LET endpos == Len(h)
        childpos == 2 * pos
    IN  IF childpos <= endpos
        THEN LET rightpos == childpos + 1
                 c == IF rightpos <= endpos /\ ~MethodRequest_lt(h[childpos], h[rightpos])
                      THEN rightpos ELSE childpos
             IN  siftup_loop([h EXCEPT ![pos] = h[c]], c, newitem)
        ELSE [h |-> [h EXCEPT ![pos] = newitem], pos |-> pos]

siftup(h, pos) ==
    LET r == siftup_loop(h, pos, h[pos])
    IN  siftdown(r.h, pos, r.pos)

\* PriorityQueue._put: heappush
heappush(h, item) == siftdown(Append(h, item), 1, Len(h) + 1)

\* PriorityQueue._get that reads the head of the heap and leaves it there.
heappop_peek(h) == [item |-> h[1], heap |-> h]

\* PriorityQueue._get: heappop, as [item, heap]
heappop(h) ==
    LET lastelt == h[Len(h)]
        rest == SubSeq(h, 1, Len(h) - 1)
    IN  IF rest # <<>>
        THEN [item |-> rest[1], heap |-> siftup([rest EXCEPT ![1] = lastelt], 1)]
        ELSE [item |-> lastelt, heap |-> rest]

\* --------------------------------------------------------------------- Init

\* The state after Scheduler() and Proxy(scheduler, servant): the worker
\* thread is started and blocks in activation_queue.get().
Init ==
    /\ nsub = 0
    /\ heap = <<>>
    /\ pc = [t \in Threads |-> IF t = Worker THEN "get" ELSE "idle"]
    /\ tf = [t \in Threads |-> 0]
    /\ val = [t \in Threads |-> None]
    /\ cur = NoReq
    /\ lock = [f \in Reqs |-> NoThread]
    /\ result = [f \in Reqs |-> None]
    /\ waiters = [f \in Reqs |-> {}]
    /\ executing = {}
    /\ order = <<>>
    /\ ranBy = [r \in Reqs |-> NoThread]
    /\ raised = {}
    /\ setCalls = [f \in Reqs |-> 0]
    /\ asked = [f \in Reqs |-> 0]
    /\ got = [f \in Reqs |-> {}]

futureVars == <<tf, val, lock, result, waiters, setCalls, asked, got>>
queueVars == <<nsub, heap, cur, executing, order, ranBy, raised>>

\* ------------------------------------------------------------------- Future

\* Future.set_result: under the condition's lock, store the result and
\* notify_all. The with block neither waits nor calls out, so it is one step,
\* taken when the lock is free. Called from MethodRequest.execute it is the
\* end of execute(): Scheduler.run loops back to activation_queue.get().
SetResult(t) ==
    LET f == tf[t]
        inExecute == \E e \in executing : e[1] = t
    IN  /\ pc[t] = "set_result"
        /\ lock[f] = NoThread
        /\ result' = [result EXCEPT ![f] = val[t]]
        /\ waiters' = [waiters EXCEPT ![f] = {}]
        /\ setCalls' = [setCalls EXCEPT ![f] = @ + 1]
        /\ pc' = [u \in Threads |->
                    IF u = t THEN (IF inExecute THEN "get" ELSE "idle")
                    ELSE IF u \in waiters[f] THEN "notified"
                    ELSE pc[u]]
        /\ tf' = [tf EXCEPT ![t] = 0]
        /\ val' = [val EXCEPT ![t] = None]
        /\ executing' = {e \in executing : e[1] # t}
        /\ cur' = IF inExecute THEN NoReq ELSE cur
        /\ UNCHANGED <<lock, asked, got>>
        /\ UNCHANGED <<nsub, heap, order, ranBy, raised>>

\* Future.get_result, `with self._condition:` -- take the condition's lock.
GetAcquire(t, f) ==
    /\ pc[t] = "idle"
    /\ lock[f] = NoThread
    /\ lock' = [lock EXCEPT ![f] = t]
    /\ tf' = [tf EXCEPT ![t] = f]
    /\ asked' = [asked EXCEPT ![f] = @ + 1]
    /\ pc' = [pc EXCEPT ![t] = "get_check"]
    /\ UNCHANGED <<val, result, waiters, setCalls, got>>
    /\ UNCHANGED queueVars

\* Future.get_result that suspends without giving up the lock (sleeping
\* inside the with block instead of Condition.wait()).
GetCheck_holds_lock(t) ==
    LET f == tf[t]
    IN  /\ pc[t] = "get_check"
        /\ IF result[f] = None
           THEN /\ waiters' = [waiters EXCEPT ![f] = @ \cup {t}]
                /\ pc' = [pc EXCEPT ![t] = "waiting"]
                /\ UNCHANGED <<tf, got, lock>>
           ELSE /\ got' = [got EXCEPT ![f] = @ \cup {result[f]}]
                /\ pc' = [pc EXCEPT ![t] = "idle"]
                /\ tf' = [tf EXCEPT ![t] = 0]
                /\ lock' = [lock EXCEPT ![f] = NoThread]
                /\ UNCHANGED waiters
        /\ UNCHANGED <<val, result, setCalls, asked>>
        /\ UNCHANGED queueVars

\* Future.get_result's loop test under the lock: `while self._result is None`
\* waits (the wait releases the lock and suspends the thread), otherwise the
\* result is returned and the with block left.
GetCheck(t) ==
    LET f == tf[t]
    IN  /\ pc[t] = "get_check"
        /\ lock' = [lock EXCEPT ![f] = NoThread]
        /\ IF result[f] = None
           THEN /\ waiters' = [waiters EXCEPT ![f] = @ \cup {t}]
                /\ pc' = [pc EXCEPT ![t] = "waiting"]
                /\ UNCHANGED <<tf, got>>
           ELSE /\ got' = [got EXCEPT ![f] = @ \cup {result[f]}]
                /\ pc' = [pc EXCEPT ![t] = "idle"]
                /\ tf' = [tf EXCEPT ![t] = 0]
                /\ UNCHANGED waiters
        /\ UNCHANGED <<val, result, setCalls, asked>>
        /\ UNCHANGED queueVars

\* Condition.wait() returning after a notify: the thread takes the lock again
\* and goes back to the loop test.
Reacquire(t) ==
    /\ pc[t] = "notified"
    /\ lock[tf[t]] = NoThread
    /\ lock' = [lock EXCEPT ![tf[t]] = t]
    /\ pc' = [pc EXCEPT ![t] = "get_check"]
    /\ UNCHANGED <<tf, val, result, waiters, setCalls, asked, got>>
    /\ UNCHANGED queueVars

\* ---------------------------------------------------------- Proxy, Scheduler

\* The Futures Proxy.process_transaction has returned so far. A Future is a
\* plain object: the thread that received it may hand it to any other.
Returned == 1 .. nsub

\* Proxy.process_transaction that also runs the request on the calling thread.
Submit_runs_inline(c, p, k) ==
    LET mr == MethodRequest(nsub + 1, p, k)
    IN  /\ pc[c] = "idle"
        /\ nsub < MaxReq
        /\ nsub' = nsub + 1
        /\ heap' = heappush(heap, mr)
        /\ executing' = executing \cup {<<c, mr.id>>}
        /\ ranBy' = [ranBy EXCEPT ![mr.id] = c]
        /\ UNCHANGED <<pc, cur, order, raised>>
        /\ UNCHANGED futureVars

\* Proxy.process_transaction: build the MethodRequest (with its fresh Future),
\* Scheduler.enqueue it (PriorityQueue.put: heappush under the queue's mutex)
\* and return the Future.
Submit(c, p, k) ==
    LET mr == MethodRequest(nsub + 1, p, k)
    IN  /\ pc[c] = "idle"
        /\ nsub < MaxReq
        /\ nsub' = nsub + 1
        /\ heap' = heappush(heap, mr)
        /\ UNCHANGED <<pc, cur, executing, order, ranBy, raised>>
        /\ UNCHANGED futureVars

\* Scheduler.run that takes the next request without waiting for the current
\* execute() to return (execute handed to a helper thread).
WorkerGet_overlapping ==
    /\ pc[Worker] \in {"get", "exec", "set_result"}
    /\ heap # <<>>
    /\ LET got1 == heappop(heap)
       IN  /\ cur' = got1.item
           /\ heap' = got1.heap
           /\ order' = Append(order, got1.item.id)
           /\ executing' = executing \cup {<<Worker, got1.item.id>>}
    /\ pc' = [pc EXCEPT ![Worker] = "exec"]
    /\ UNCHANGED <<nsub, ranBy, raised>>
    /\ UNCHANGED futureVars

\* Scheduler.run: activation_queue.get() blocks while the queue is empty, then
\* pops the heap; the request's execute() is entered.
WorkerGet ==
    /\ pc[Worker] = "get"
    /\ heap # <<>>
    /\ LET got1 == heappop(heap)
       IN  /\ cur' = got1.item
           /\ heap' = got1.heap
           /\ order' = Append(order, got1.item.id)
           /\ executing' = executing \cup {<<Worker, got1.item.id>>}
    /\ pc' = [pc EXCEPT ![Worker] = "exec"]
    /\ UNCHANGED <<nsub, ranBy, raised>>
    /\ UNCHANGED futureVars

\* Scheduler.run with execute() wrapped in try/except: the error is caught,
\* delivered through the Future, and the loop goes on.
WorkerCall_catches ==
    /\ pc[Worker] = "exec"
    /\ ranBy' = [ranBy EXCEPT ![cur.id] = Worker]
    /\ raised' = IF cur.kind = "raise" THEN raised \cup {cur.id} ELSE raised
    /\ val' = [val EXCEPT ![Worker] =
                 IF cur.kind = "ok" THEN Receipt(cur)
                 ELSE IF cur.kind = "raise" THEN <<"failed", cur.tid>> ELSE None]
    /\ tf' = [tf EXCEPT ![Worker] = cur.future]
    /\ pc' = [pc EXCEPT ![Worker] = "set_result"]
    /\ UNCHANGED <<executing, cur>>
    /\ UNCHANGED <<nsub, heap, order>>
    /\ UNCHANGED <<lock, result, waiters, setCalls, asked, got>>

\* MethodRequest.execute, `result = self.method(self.servant, ...)`: the
\* servant method runs on the calling thread and returns a value, returns
\* None, or raises. Nothing catches the exception: it leaves execute() and
\* Scheduler.run, and the worker thread ends.
WorkerCall ==
    /\ pc[Worker] = "exec"
    /\ ranBy' = [ranBy EXCEPT ![cur.id] = Worker]
    /\ IF cur.kind = "raise"
       THEN /\ raised' = raised \cup {cur.id}
            /\ pc' = [pc EXCEPT ![Worker] = "dead"]
            /\ executing' = {e \in executing : e[1] # Worker}
            /\ cur' = NoReq
            /\ UNCHANGED <<tf, val>>
       ELSE /\ val' = [val EXCEPT ![Worker] =
                         IF cur.kind = "ok" THEN Receipt(cur) ELSE None]
            /\ tf' = [tf EXCEPT ![Worker] = cur.future]
            /\ pc' = [pc EXCEPT ![Worker] = "set_result"]
            /\ UNCHANGED <<raised, executing, cur>>
    /\ UNCHANGED <<nsub, heap, order>>
    /\ UNCHANGED <<lock, result, waiters, setCalls, asked, got>>

\* A client calls get_result on a Future process_transaction returned; each
\* Future's result is fetched once.
ClientGet(c) == \E f \in Returned : asked[f] = 0 /\ GetAcquire(c, f)

Next ==
    \/ \E c \in Clients, p \in Prios, k \in Kinds : Submit(c, p, k)
    \/ WorkerGet
    \/ WorkerCall
    \/ \E t \in Threads : SetResult(t)
    \/ \E c \in Clients : ClientGet(c)
    \/ \E t \in Threads : GetCheck(t)
    \/ \E t \in Threads : Reacquire(t)

Spec == Init /\ [][Next]_vars

\* A started thread keeps running: the worker's loop and every call a thread
\* is inside make progress. Nothing obliges a client to start a call.
Fairness ==
    /\ WF_vars(WorkerGet)
    /\ WF_vars(WorkerCall)
    /\ \A t \in Threads : WF_vars(SetResult(t))
    /\ \A t \in Threads : WF_vars(GetCheck(t))
    /\ \A t \in Threads : WF_vars(Reacquire(t))

FairSpec == Spec /\ Fairness

\* ------------------------------------------------- the Future class on its own
\* One Future (F0), not attached to a request, shared by the threads: any idle
\* thread may call set_result with any value or get_result on it.

\* The state after Future(): _result is None, the condition's lock free and
\* nobody waiting. No Scheduler is constructed: all three threads are plain
\* callers.
FutureInit ==
    /\ nsub = 0
    /\ heap = <<>>
    /\ pc = [t \in Threads |-> "idle"]
    /\ tf = [t \in Threads |-> 0]
    /\ val = [t \in Threads |-> None]
    /\ cur = NoReq
    /\ lock = [f \in Reqs |-> NoThread]
    /\ result = [f \in Reqs |-> None]
    /\ waiters = [f \in Reqs |-> {}]
    /\ executing = {}
    /\ order = <<>>
    /\ ranBy = [r \in Reqs |-> NoThread]
    /\ raised = {}
    /\ setCalls = [f \in Reqs |-> 0]
    /\ asked = [f \in Reqs |-> 0]
    /\ got = [f \in Reqs |-> {}]

InSet(f) == {t \in Threads : pc[t] = "set_result" /\ tf[t] = f}

\* A thread calls F0.set_result(v).
DirectSet(t, v) ==
    /\ pc[t] = "idle"
    /\ setCalls[F0] + Cardinality(InSet(F0)) < MaxSets
    /\ tf' = [tf EXCEPT ![t] = F0]
    /\ val' = [val EXCEPT ![t] = v]
    /\ pc' = [pc EXCEPT ![t] = "set_result"]
    /\ UNCHANGED <<lock, result, waiters, setCalls, asked, got>>
    /\ UNCHANGED queueVars

\* A thread calls F0.get_result().
DirectGet(t) == asked[F0] < Cardinality(Threads) /\ GetAcquire(t, F0)

FutureNext ==
    \/ \E t \in Threads, v \in SetValues : DirectSet(t, v)
    \/ \E t \in Threads : DirectGet(t)
    \/ \E t \in Threads : SetResult(t)
    \/ \E t \in Threads : GetCheck(t)
    \/ \E t \in Threads : Reacquire(t)

FutureSpec == FutureInit /\ [][FutureNext]_vars

FairFutureSpec ==
    /\ FutureSpec
    /\ \A t \in Threads : WF_vars(SetResult(t))
    /\ \A t \in Threads : WF_vars(GetCheck(t))
    /\ \A t \in Threads : WF_vars(Reacquire(t))

\* ------------------------------------------------------- the example usage
\* The script under `if __name__ == "__main__"`: the main thread (c1) builds
\* the Scheduler (its worker starts at once) and the Proxy, submits T1001,
\* T1002, T1003 with priorities 10, 1, 5, then fetches the results of the
\* high, the medium and the low priority transaction, in that order.

MainThread == "c1"
ExamplePrios == <<10, 1, 5>>
ExampleGets == <<1, 3, 2>>

\* proxy.process_transaction(..., priority=...), the next of the three calls.
MainSubmit ==
    /\ nsub < Len(ExamplePrios)
    /\ Submit(MainThread, ExamplePrios[nsub + 1], "ok")

\* print(future.get_result()), the next of the three calls: the one before it
\* has returned.
MainGet ==
    /\ nsub = Len(ExamplePrios)
    /\ \E i \in 1 .. Len(ExampleGets) :
          /\ \A j \in 1 .. i - 1 : got[ExampleGets[j]] # {}
          /\ asked[ExampleGets[i]] = 0
          /\ GetAcquire(MainThread, ExampleGets[i])

ExampleNext ==
    \/ MainSubmit
    \/ MainGet
    \/ WorkerGet
    \/ WorkerCall
    \/ \E t \in Threads : SetResult(t)
    \/ \E t \in Threads : GetCheck(t)
    \/ \E t \in Threads : Reacquire(t)

ExampleSpec == Init /\ [][ExampleNext]_vars

\* ===================================================================== claims

DequeueStep == pc[Worker] = "get" /\ pc'[Worker] = "exec"
InGet(t) == pc[t] \in {"get_check", "waiting", "notified"}

\* C1 (serialized access): at any time at most one execute() call is in
\* progress, whatever the clients submit and whenever they submit it.
C1_SerializedAccess == Cardinality(executing) <= 1

\* C1 witness: an execute() is in progress while two more requests are queued.
C1_Witness == Cardinality(executing) = 1 /\ Len(heap) >= 2

\* C2 (priority ordering): whenever the worker dequeues, the request it takes
\* has a priority at least that of every request in the queue at that moment.
C2_PriorityOrdering ==
    [][DequeueStep => \A i \in 1 .. Len(heap) : cur'.priority >= heap[i].priority]_vars

\* C2 witness: priorities 1, 10, 5 were enqueued in that order (ids 1, 2, 3)
\* before any dequeue; the worker took 10 first, then 5, and 1 is left.
C2_Witness ==
    /\ pc[Worker] = "exec"
    /\ order = <<2, 3>>
    /\ cur.priority = 5
    /\ Len(heap) = 1 /\ heap[1].id = 1 /\ heap[1].priority = 1
    /\ nsub = 3

\* C3 (FIFO tie-break): whenever the worker dequeues, no request of the same
\* priority that was enqueued earlier (smaller id) is still in the queue.
C3_FifoTieBreak ==
    [][DequeueStep =>
        \A i \in 1 .. Len(heap) :
            heap[i].priority = cur'.priority => cur'.id <= heap[i].id]_vars

\* C4 (eventual delivery): every request that has been enqueued is eventually
\* executed and its Future filled by a set_result.
C4_EventualDelivery ==
    \A r \in Reqs : (r <= nsub) ~> (ranBy[r] # NoThread /\ setCalls[r] >= 1)

\* C5 (failure isolation): a request whose operation raised does not end the
\* worker loop.
C5_FailureIsolation == raised # {} => pc[Worker] # "dead"

\* C6 (failure delivery): once a request's operation has raised, the worker is
\* delivering the failure to the request's Future or the Future holds it.
C6_FailureDelivery ==
    \A r \in raised :
        \/ pc[Worker] = "set_result" /\ tf[Worker] = r
        \/ setCalls[r] >= 1 /\ result[r] # None

\* C7 (single assignment): once a set_result has completed on a Future, its
\* stored value never changes.
C7_SingleAssignment ==
    [][\A f \in Reqs : setCalls[f] >= 1 => result'[f] = result[f]]_vars

\* C8 (blocking correctness): with a single set_result(v) on the Future, every
\* thread inside get_result eventually returns.
C8_WaitersReturn ==
    \A t \in Threads :
        (InGet(t) /\ tf[t] = F0 /\ setCalls[F0] = 1) ~> (pc[t] = "idle" \/ setCalls[F0] > 1)

\* C9 (filled whatever the value): a thread is suspended in get_result only
\* on a Future no set_result has been called on.
C9_FilledAfterSet == \A t \in Threads : pc[t] = "waiting" => setCalls[tf[t]] = 0

\* C10 (non-blocking submission): servant operations are run by the worker
\* thread only, and an idle client can complete process_transaction in every
\* state of the worker and of the queue.
C10_NonBlockingSubmit ==
    /\ \A r \in Reqs : ranBy[r] \in {NoThread, Worker}
    /\ \A c \in Clients :
          (pc[c] = "idle" /\ nsub < MaxReq) =>
              \A p \in Prios, k \in Kinds : ENABLED Submit(c, p, k)

\* C10 witness: a request of higher priority than the one being executed is
\* in the queue, so it was enqueued while the worker was executing.
C10_Witness ==
    /\ pc[Worker] = "exec"
    /\ Len(heap) >= 1
    /\ heap[1].priority > cur.priority
    /\ ranBy[heap[1].id] = NoThread

\* C11 (result routing): requests that exist together own different Futures,
\* and a Future only ever holds, and get_result only ever returns, the result
\* of its own request's operation on its own arguments.
C11_ResultRouting ==
    /\ \A i, j \in 1 .. Len(heap) : i # j => heap[i].future # heap[j].future
    /\ \A i \in 1 .. Len(heap) : cur # NoReq => heap[i].future # cur.future
    /\ \A f \in Reqs : result[f] \in {None, <<"completed", f>>}
    /\ \A f \in Reqs : got[f] \subseteq {<<"completed", f>>}
    /\ \A f \in Reqs : setCalls[f] <= 1

\* C11 witness: two requests executed in the reverse of their submission
\* order, each Future holding its own receipt, one of them fetched.
C11_Witness ==
    /\ order = <<2, 1>>
    /\ result[1] = <<"completed", 1>>
    /\ result[2] = <<"completed", 2>>
    /\ got[2] = {<<"completed", 2>>}

\* C12 (end-to-end scenario, as claimed): the three transactions of the
\* example are executed in the order 10, 5, 1, that is ids 1, 3, 2.
C12_ExampleOrder == Len(order) = 3 => order = <<1, 3, 2>>

\* C12 (amended): the priority-10 transaction is always taken first, and the
\* priority-5 one is taken second whenever it has been enqueued by the time
\* the worker dequeues for the second time.
C12_ExampleOrderAmended ==
    [][DequeueStep =>
        /\ order = <<>> => cur'.id = 1
        /\ (Len(order) = 1 /\ nsub = 3) => cur'.id = 3]_vars

\* C12 witness: the run of the example in which all three were executed in
\* the order 10, 5, 1 and the main thread has fetched all three results.
C12_Witness ==
    /\ order = <<1, 3, 2>>
    /\ \A f \in 1 .. 3 : got[f] = {<<"completed", f>>}

\* C13 (no preemption): the request being executed is never replaced by
\* another one, whatever is enqueued meanwhile; the worker dequeues only when
\* every request it took before has had its Future filled, and then takes a
\* request of the highest priority queued.
C13_NoPreemption ==
    [][/\ cur # NoReq => cur' \in {cur, NoReq}
       /\ DequeueStep =>
            /\ cur = NoReq
            /\ \A i \in 1 .. Len(order) : setCalls[order[i]] >= 1
            /\ \A i \in 1 .. Len(heap) : cur'.priority >= heap[i].priority]_vars

\* C13 witness: the worker is still completing a request (about to fill its
\* Future) while a request of strictly higher priority waits in the queue.
C13_Witness ==
    /\ pc[Worker] = "set_result"
    /\ Len(heap) >= 1
    /\ heap[1].priority > cur.priority
    /\ setCalls[cur.future] = 0

\* C14 (execute at most once): no request is dequeued twice or is still
\* queued after it was dequeued, only the worker runs servant operations and
\* only on requests it dequeued, and the step that runs a request's
\* operation finds it not run before.
C14_ExecuteOnce ==
    /\ [](/\ \A i, j \in 1 .. Len(order) : i # j => order[i] # order[j]
          /\ \A i \in 1 .. Len(heap), j \in 1 .. Len(order) : heap[i].id # order[j]
          /\ \A r \in Reqs : ranBy[r] \in {NoThread, Worker}
          /\ \A r \in Reqs : ranBy[r] = Worker => \E j \in 1 .. Len(order) : order[j] = r
          /\ \A e \in executing : e[1] = Worker /\ e[2] = cur.id)
    /\ [][(pc[Worker] = "exec" /\ pc'[Worker] # "exec") => ranBy[cur.id] = NoThread]_vars

\* C14 witness: three requests have all been dequeued and run, each once.
C14_Witness ==
    /\ Len(order) = 3
    /\ \A r \in 1 .. 3 : ranBy[r] = Worker
    /\ heap = <<>>

\* C15 (worker state machine): the worker is always Idle-waiting (at
\* activation_queue.get(), holding no request) or Executing (inside execute()
\* of exactly one request), never in a terminal state.
C15_WorkerStates ==
    \/ pc[Worker] = "get" /\ cur = NoReq /\ executing = {}
    \/ pc[Worker] \in {"exec", "set_result"} /\ cur # NoReq
          /\ executing = {<<Worker, cur.id>>}

Suspended(t) == pc[t] \in {"waiting", "notified"}

WorkerUnhindered ==
    /\ (pc[Worker] = "get" /\ heap # <<>>) => ENABLED WorkerGet
    /\ pc[Worker] = "exec" => ENABLED WorkerCall
    /\ (pc[Worker] = "set_result" /\ lock[tf[Worker]] = NoThread) =>
          ENABLED SetResult(Worker)

\* C16 (a blocked get_result blocks only its caller): a suspended waiter does
\* not hold its Future's lock, which only a thread running get_result's test
\* holds; so with callers suspended the worker can still dequeue when
\* requests are queued and run the operation it is in, its set_result is held
\* up by no suspended thread, and an idle client can still enqueue.
C16_WaiterBlocksOnlyItself ==
    [](/\ \A t \in Threads : Suspended(t) => lock[tf[t]] # t
       /\ \A f \in Reqs :
             lock[f] # NoThread => pc[lock[f]] = "get_check" /\ tf[lock[f]] = f
       /\ (\A c \in Clients : Suspended(c)) => WorkerUnhindered
       /\ \A c, d \in Clients :
             (Suspended(d) /\ pc[c] = "idle" /\ nsub < MaxReq) =>
                 ENABLED Submit(c, 1, "ok"))

\* C16 witness: both clients are suspended in get_result, on two Futures, and
\* the worker is about to set the result of one of them.
C16_Witness ==
    /\ \A c \in Clients : pc[c] = "waiting"
    /\ \E c, d \in Clients : tf[c] # tf[d]
    /\ pc[Worker] = "set_result"
    /\ waiters[tf[Worker]] # {}
    /\ ENABLED SetResult(Worker)

Dead == pc[Worker] = "dead"

Unserved == raised \cup {heap[i].id : i \in 1 .. Len(heap)}

\* C17 (an operation's error ends the worker for good): once an operation has
\* raised the worker thread is gone and stays gone; from then on nothing is
\* dequeued and no Future changes, the Futures of the failing request and of
\* every request in the queue (those enqueued later included) are unfilled
\* and have returned nothing, a caller suspended on one of them stays
\* suspended, and enqueue still accepts requests.
C17_WorkerDiesOnError ==
    /\ [](/\ raised # {} => Dead
          /\ Dead => /\ Cardinality(raised) = 1
                      /\ \A r \in Unserved :
                            /\ result[r] = None
                            /\ setCalls[r] = 0
                            /\ got[r] = {}
                      /\ \A c \in Clients :
                            (pc[c] = "idle" /\ nsub < MaxReq) =>
                                ENABLED Submit(c, 1, "ok"))
    /\ [][Dead => /\ Dead'
                  /\ order' = order
                  /\ result' = result
                  /\ \A i \in 1 .. Len(heap) : heap[i].id \in Unserved'
                  /\ \A t \in Threads :
                        (pc[t] = "waiting" /\ tf[t] \in Unserved) =>
                            pc'[t] = "waiting"]_vars

\* C17 witness: request 1's operation raised and the worker is gone; a request
\* enqueued after that sits in the queue, and clients are suspended on the
\* failing request's Future and on the queued request's Future.
C17_Witness ==
    /\ Dead
    /\ raised = {1}
    /\ order = <<1>>
    /\ Len(heap) = 2
    /\ \E c, d \in Clients :
          /\ pc[c] = "waiting" /\ tf[c] = 1
          /\ pc[d] = "waiting" /\ tf[d] \in {heap[i].id : i \in 1 .. Len(heap)}

Queued == {heap[i].id : i \in 1 .. Len(heap)}

Executing == IF cur = NoReq THEN {} ELSE {cur.id}

Completed == {r \in Reqs : setCalls[r] >= 1}

\* C18 (no request is lost): every request enqueued so far is in exactly one
\* of three places: in the activation queue, being executed by the worker, or
\* completed (its execute() ran to its end, the set_result on its Future); so
\* the three counts add up to the number of requests submitted.
C18_NoRequestLost ==
    /\ Queued \cup Executing \cup Completed = 1 .. nsub
    /\ Queued \cap Executing = {}
    /\ Queued \cap Completed = {}
    /\ Executing \cap Completed = {}
    /\ Len(heap) + Cardinality(Executing) + Cardinality(Completed) = nsub

====
